---- MODULE Spec2Model ----
(***************************************************************************)
(* A model of blobfuse/utilities.cpp: the cache eviction worker            *)
(* (gc_cache), the shared advisory lock taken by open handles, the paged   *)
(* remote listing with bounded retry, the directory-state resolver, the    *)
(* attribute resolver's locking and the directory rename.                  *)
(*                                                                         *)
(* The module holds several specifications, one per part of the program:   *)
(*   Spec          the eviction worker and open handles, with the clock    *)
(*   LockSpec      the same with the getattr threads, on the path mutexes  *)
(*   DequeSpec     the same with m_deque_lock followed step by step        *)
(*   FairEvictSpec the worker under fair scheduling and an advancing clock *)
(*   ListSpec      list_all_blobs_hierarchical against a paging remote     *)
(*   DirSpec       is_directory_empty against a paging remote              *)
(*   RenameSpec    azs_rename / azs_rename_directory                       *)
(*   GetattrSpec   one azs_getattr call through its remote lookup          *)
(***************************************************************************)
EXTENDS Integers, Sequences, FiniteSets, TLC

(***************************************************************************)
(* Part 1.  Eviction worker, open handles, getattr threads.                *)
(***************************************************************************)

\* Bounds of the model.
MaxTime == 1
MaxQueue == 2

\* Configuration values of the mounted filesystem (set outside utilities.cpp).
file_cache_timeout_in_seconds == 0
high_threshold == 90
low_threshold == 80

\* Paths of cached files; "/" is the root, the only path of length 1.
Paths == {"/a", "/b"}
RootPath == "/"
Handles == {"h1", "h2"}
Getattrs == {"g1", "g2"}

\* Used-space percentages a statvfs probe can observe.
UsageLevels == {70, 80, 90}

TimeVals == 0..MaxTime
\* The times an uninitialised struct stat may hold: an old one and a recent one.
UninitTimes == {0, MaxTime}

VARIABLES
    now,                     \* time(NULL)
    m_cleanup,               \* gc_cache::m_cleanup, the deque of file_to_delete
    m_deque_lock,            \* gc_cache::m_deque_lock: the thread that holds it
    disk_threshold_reached,  \* gc_cache::disk_threshold_reached
    gc,                      \* locals and position of run_gc_cache and, in probe, of
                             \* its last check_disk_space: [ok, used_percent]
    mutex,                   \* file_lock_map: path -> owner of its mutex
    cache,                   \* files under tmpPath/root: path -> [exists, mtime, ctime]
    handles,                 \* file handles: [pc, path, stale, closed_time]
    getattr,                 \* azs_getattr calls: [pc, path, res (the last result)]
    list,                    \* locals and position of list_all_blobs_hierarchical
    remote,                  \* the remote store: the object at the directory's own
                             \* key, its listing under the prefix, and what it has
                             \* answered so far
    dir,                     \* locals and position of is_directory_empty
    ren,                     \* azs_rename and azs_rename_directory: the cache
                             \* directory of src, locals, position, and the renames made
    ga                       \* one azs_getattr call followed through the remote
                             \* lookup: its path, locals, position and result

vars == <<now, m_cleanup, m_deque_lock, disk_threshold_reached, gc, mutex, cache, handles,
          getattr, list, remote, dir, ren, ga>>
evict_vars == <<now, m_cleanup, m_deque_lock, disk_threshold_reached, gc, mutex, cache,
                handles, getattr>>
list_vars == <<list, remote>>
\* What the eviction worker, the handles and getattr leave alone, and what a
\* listing leaves alone.
\* An action that takes and releases m_deque_lock within its one step leaves
\* the lock as it found it; the actions that follow the lock step by step
\* leave not_deque alone.
not_deque == <<list_vars, dir, ren, ga>>
not_evict == <<not_deque, m_deque_lock>>
not_list == <<evict_vars, dir, ren, ga>>
not_dir == <<evict_vars, list, ren, ga>>
not_ren == <<evict_vars, dir, ga>>
not_ga == <<evict_vars, dir, ren>>

NoFile == [path |-> RootPath, closed_time |-> 0]
NoStat == [st_mtime |-> 0, st_ctime |-> 0]
NoCacheFile == [exists |-> FALSE, st_mtime |-> 0, st_ctime |-> 0]
NoHandle == [pc |-> "closed", path |-> RootPath, stale |-> FALSE, closed_time |-> 0]

\* The worker at the top of its loop, its locals not yet set.
NoProbe == [ok |-> FALSE, used_percent |-> 0]
GcStart == [pc |-> "peek", file |-> NoFile, now |-> 0, buf |-> NoStat,
            fd |-> FALSE, flockres |-> "none", probe |-> NoProbe]


\* str_options.tmpPath, the cache location given at mount time.
tmpPath == "/mnt/blobfusetmp"

\* prepend_mnt_path_string: the name of the cache file of a path, tmpPath
\* followed by "/root" and the path.
prepend_mnt_path_string(path) == <<tmpPath, "/root", path>>

\* The names of the cache files.
CacheFiles == {prepend_mnt_path_string(p) : p \in Paths}

\* file_lock_map::get_mutex: the mutex of a path, looked up by the exact string.
get_mutex(path) == path

\* The descriptors that hold a shared advisory lock on the file now linked at
\* the cache file name path.
SharedHolders(path) ==
    {h \in Handles : /\ handles[h].pc = "open"
                     /\ prepend_mnt_path_string(handles[h].path) = path
                     /\ ~handles[h].stale}

\* The worker holds the exclusive advisory lock between its flock(LOCK_EX|LOCK_NB)
\* and its flock(LOCK_UN).
ExclusiveHeld(path) ==
    gc.pc = "unlink" /\ prepend_mnt_path_string(gc.file.path) = path

EvictInit ==
    /\ now = 0
    /\ m_cleanup = <<>>
    /\ m_deque_lock = "free"
    /\ disk_threshold_reached = FALSE
    /\ gc = GcStart
    /\ mutex = [p \in Paths |-> "free"]
    /\ cache = [f \in CacheFiles |-> NoCacheFile]
    /\ handles = [h \in Handles |-> NoHandle]
    /\ getattr = [g \in Getattrs |-> [pc |-> "idle", path |-> RootPath, res |-> "none"]]

\* The clock advances.
Tick ==
    /\ now < MaxTime
    /\ now' = now + 1
    /\ UNCHANGED <<m_cleanup, disk_threshold_reached, gc, mutex, cache, handles, getattr, not_evict>>

----
\* gc_cache::check_disk_space.  statvfs_ok is whether statvfs succeeded and
\* used_percent the percentage it computed.
check_disk_space_NoHysteresis(statvfs_ok, used_percent) ==
    statvfs_ok /\ used_percent >= high_threshold

check_disk_space_KeepOnFailure(statvfs_ok, used_percent) ==
    IF ~statvfs_ok THEN disk_threshold_reached
    ELSE \/ (used_percent >= high_threshold /\ ~disk_threshold_reached)
         \/ (used_percent >= low_threshold /\ disk_threshold_reached)

check_disk_space(statvfs_ok, used_percent) ==
    IF ~statvfs_ok THEN FALSE
    ELSE IF used_percent >= high_threshold /\ ~disk_threshold_reached THEN TRUE
    ELSE IF used_percent >= low_threshold /\ disk_threshold_reached THEN TRUE
    ELSE FALSE

\* disk_threshold_reached = check_disk_space(), for every outcome of statvfs;
\* the worker goes on at pc.
UpdateDiskThreshold(pc) ==
    \E ok \in BOOLEAN, u \in UsageLevels :
        /\ gc' = [GcStart EXCEPT !.pc = pc, !.file = IF pc = "peek" THEN NoFile ELSE gc.file,
                                 !.probe = [ok |-> ok, used_percent |-> IF ok THEN u ELSE 0]]
        /\ disk_threshold_reached' = check_disk_space(ok, u)

----
\* run_gc_cache, one action per step of its loop body.

\* The deque is empty: sleep and look again.
GcIdle ==
    /\ gc.pc = "peek"
    /\ m_cleanup = <<>>
    /\ UNCHANGED vars

GcPeek_Back ==
    /\ gc.pc = "peek"
    /\ m_cleanup # <<>>
    /\ gc' = [GcStart EXCEPT !.pc = "check", !.file = m_cleanup[Len(m_cleanup)]]
    /\ UNCHANGED <<now, m_cleanup, disk_threshold_reached, mutex, cache, handles, getattr, not_evict>>

\* file = m_cleanup.front(), under m_deque_lock.
GcPeek ==
    /\ gc.pc = "peek"
    /\ m_cleanup # <<>>
    /\ gc' = [GcStart EXCEPT !.pc = "check", !.file = Head(m_cleanup)]
    /\ UNCHANGED <<now, m_cleanup, disk_threshold_reached, mutex, cache, handles, getattr, not_evict>>

Eligible_TimeoutOnly(t, file) ==
    (t - file.closed_time) > file_cache_timeout_in_seconds

\* The first test of the candidate: its closed time, or the threshold flag.
Eligible(t, file) ==
    ((t - file.closed_time) > file_cache_timeout_in_seconds) \/ disk_threshold_reached

\* now = time(NULL); the candidate is eligible: go on to lock its path.
GcCheckEligible ==
    /\ gc.pc = "check"
    /\ Eligible(now, gc.file)
    /\ gc' = [gc EXCEPT !.pc = "lock", !.now = now]
    /\ UNCHANGED <<now, m_cleanup, disk_threshold_reached, mutex, cache, handles, getattr, not_evict>>

\* The candidate is not eligible: sleep, probe the disk, start over.
GcCheckNotTimedOut ==
    /\ gc.pc = "check"
    /\ ~Eligible(now, gc.file)
    /\ UpdateDiskThreshold("peek")
    /\ UNCHANGED <<now, m_cleanup, mutex, cache, handles, getattr, not_evict>>

GcLock_NoWait ==
    /\ gc.pc = "lock"
    /\ gc' = [gc EXCEPT !.pc = "stat"]
    /\ UNCHANGED <<now, m_cleanup, disk_threshold_reached, mutex, cache, handles, getattr, not_evict>>

\* std::lock_guard on the path's mutex: blocks until the mutex is free.
GcLock ==
    /\ gc.pc = "lock"
    /\ mutex[get_mutex(gc.file.path)] = "free"
    /\ mutex' = [mutex EXCEPT ![get_mutex(gc.file.path)] = "gc"]
    /\ gc' = [gc EXCEPT !.pc = "stat"]
    /\ UNCHANGED <<now, m_cleanup, disk_threshold_reached, cache, handles, getattr, not_evict>>

\* The second test, on the stat of the cached file.
StillTooOld_ClosedTimeOnly(t, buf) == TRUE

StillTooOld(t, buf) ==
    \/ /\ (t - buf.st_mtime) > file_cache_timeout_in_seconds
       /\ (t - buf.st_ctime) > file_cache_timeout_in_seconds
    \/ disk_threshold_reached

\* stat(mntPath, &buf), its result unchecked: when the file is missing buf is
\* left uninitialised and holds any times.
GcStat ==
    /\ gc.pc = "stat"
    /\ LET p == prepend_mnt_path_string(gc.file.path) IN
       \E m \in TimeVals, c \in TimeVals :
          /\ cache[p].exists => (m = cache[p].st_mtime /\ c = cache[p].st_ctime)
          /\ ~cache[p].exists => (m \in UninitTimes /\ c \in UninitTimes)
          /\ LET buf == [st_mtime |-> m, st_ctime |-> c] IN
             gc' = [gc EXCEPT !.buf = buf,
                              !.pc = IF StillTooOld(gc.now, buf) THEN "open" ELSE "pop"]
    /\ UNCHANGED <<now, m_cleanup, disk_threshold_reached, mutex, cache, handles, getattr, not_evict>>

\* fd = open(mntPath, O_WRONLY): fails when the file is missing, and may fail
\* for another reason (EMFILE, EACCES).
GcOpen ==
    /\ gc.pc = "open"
    /\ \E ok \in BOOLEAN :
          /\ ok => cache[prepend_mnt_path_string(gc.file.path)].exists
          /\ gc' = [gc EXCEPT !.fd = ok, !.pc = IF ok THEN "flock" ELSE "pop"]
    /\ UNCHANGED <<now, m_cleanup, disk_threshold_reached, mutex, cache, handles, getattr, not_evict>>

\* flock(fd, LOCK_EX|LOCK_NB): the outcomes open to the call.
flock_ex_nb_IgnoreShared(path) == {"ok", "other"}

flock_ex_nb(path) ==
    IF SharedHolders(path) # {} THEN {"EWOULDBLOCK"} ELSE {"ok", "other"}

GcFlock_UnlinkAnyway ==
    /\ gc.pc = "flock"
    /\ \E r \in flock_ex_nb(prepend_mnt_path_string(gc.file.path)) :
          gc' = [gc EXCEPT !.flockres = r, !.pc = "unlink"]
    /\ UNCHANGED <<now, m_cleanup, disk_threshold_reached, mutex, cache, handles, getattr, not_evict>>

\* flockres = flock(...); on failure log and fall through to close(fd).
GcFlock ==
    /\ gc.pc = "flock"
    /\ \E r \in flock_ex_nb(prepend_mnt_path_string(gc.file.path)) :
          gc' = [gc EXCEPT !.flockres = r, !.pc = IF r = "ok" THEN "unlink" ELSE "pop"]
    /\ UNCHANGED <<now, m_cleanup, disk_threshold_reached, mutex, cache, handles, getattr, not_evict>>

\* unlink(mntPath); flock(fd, LOCK_UN).  Descriptors still open on the file
\* keep the unlinked inode.
GcUnlink ==
    /\ gc.pc = "unlink"
    /\ LET p == prepend_mnt_path_string(gc.file.path) IN
       /\ cache' = [cache EXCEPT ![p] = NoCacheFile]
       /\ handles' = [h \in Handles |->
                        IF handles[h].pc = "open"
                           /\ prepend_mnt_path_string(handles[h].path) = p
                        THEN [handles[h] EXCEPT !.stale = TRUE]
                        ELSE handles[h]]
    /\ gc' = [gc EXCEPT !.pc = "update_disk"]
    /\ UNCHANGED <<now, m_cleanup, disk_threshold_reached, mutex, getattr, not_evict>>

\* disk_threshold_reached = check_disk_space() after a deletion.
GcUpdateDisk ==
    /\ gc.pc = "update_disk"
    /\ UpdateDiskThreshold("pop")
    /\ UNCHANGED <<now, m_cleanup, mutex, cache, handles, getattr, not_evict>>

GcPop_KeepCandidate ==
    /\ gc.pc = "pop"
    /\ m_cleanup' = IF gc.flockres = "EWOULDBLOCK" THEN m_cleanup ELSE Tail(m_cleanup)
    /\ mutex' = [mutex EXCEPT ![get_mutex(gc.file.path)] = "free"]
    /\ gc' = GcStart
    /\ UNCHANGED <<now, disk_threshold_reached, cache, handles, getattr, not_evict>>

\* close(fd) if it was opened; m_cleanup.pop_front() under m_deque_lock; the
\* lock_guard on the path's mutex ends with the block.
GcPop ==
    /\ gc.pc = "pop"
    /\ m_cleanup' = Tail(m_cleanup)
    /\ mutex' = [mutex EXCEPT ![get_mutex(gc.file.path)] = "free"]
    /\ gc' = GcStart
    /\ UNCHANGED <<now, disk_threshold_reached, cache, handles, getattr, not_evict>>

GcStep ==
    \/ GcIdle
    \/ GcPeek
    \/ GcCheckEligible
    \/ GcCheckNotTimedOut
    \/ GcLock
    \/ GcStat
    \/ GcOpen
    \/ GcFlock
    \/ GcUnlink
    \/ GcUpdateDisk
    \/ GcPop

----
\* Open file handles on cached files (the callers of shared_lock_file and
\* add_file).

\* shared_lock_file(flags, fd): the results open to the call.  With O_NONBLOCK
\* a conflicting exclusive lock gives EWOULDBLOCK; without it the call waits
\* (no result) while the exclusive lock is held.  flock may also fail for
\* another reason.  A non-zero result means fd was closed.
shared_lock_file(nonblock, path) ==
    IF ExclusiveHeld(path)
    THEN IF nonblock THEN {"EWOULDBLOCK"} ELSE {}
    ELSE {"ok", "other"}

\* Opening a cached file, all of it under the path's mutex: the file is brought
\* into the cache if it is not there, a descriptor is opened on it and
\* shared_lock_file takes the handle's shared lock.
HOpen(h, p) ==
    /\ handles[h].pc = "closed"
    /\ mutex[get_mutex(p)] = "free"
    /\ LET f == prepend_mnt_path_string(p) IN
       cache' = IF cache[f].exists THEN cache
                ELSE [cache EXCEPT ![f] = [exists |-> TRUE, st_mtime |-> now, st_ctime |-> now]]
    /\ \E nonblock \in BOOLEAN :
       \E r \in shared_lock_file(nonblock, prepend_mnt_path_string(p)) :
          handles' = [handles EXCEPT ![h] =
                        IF r = "ok" THEN [NoHandle EXCEPT !.pc = "open", !.path = p]
                        ELSE NoHandle]
    /\ UNCHANGED <<now, m_cleanup, disk_threshold_reached, gc, mutex, getattr, not_evict>>

\* A write through an open handle changes the file's mtime and ctime.
HWrite(h) ==
    /\ handles[h].pc = "open"
    /\ ~handles[h].stale
    /\ LET f == prepend_mnt_path_string(handles[h].path) IN
       /\ cache[f].st_mtime # now
       /\ cache' = [cache EXCEPT ![f].st_mtime = now, ![f].st_ctime = now]
    /\ UNCHANGED <<now, m_cleanup, disk_threshold_reached, gc, mutex, handles, getattr, not_evict>>

\* The handle is closed (its shared lock goes with it) and add_file begins:
\* file.path = path; file.closed_time = time(NULL).
HClose(h) ==
    /\ handles[h].pc = "open"
    /\ Len(m_cleanup) + Cardinality({k \in Handles : handles[k].pc = "closing"}) < MaxQueue
    /\ handles' = [handles EXCEPT ![h].pc = "closing", ![h].closed_time = now]
    /\ UNCHANGED <<now, m_cleanup, disk_threshold_reached, gc, mutex, cache, getattr, not_evict>>

\* add_file ends: m_cleanup.push_back(file) under m_deque_lock.
add_file_push(h) ==
    /\ handles[h].pc = "closing"
    /\ m_cleanup' = Append(m_cleanup, [path |-> handles[h].path,
                                       closed_time |-> handles[h].closed_time])
    /\ handles' = [handles EXCEPT ![h] = NoHandle]
    /\ UNCHANGED <<now, disk_threshold_reached, gc, mutex, cache, getattr, not_evict>>

----
\* azs_getattr, one action per step.

\* The root: a synthetic directory record, returned at once.
GetattrRoot(g) ==
    /\ getattr[g].pc = "idle"
    /\ getattr' = [getattr EXCEPT ![g] = [pc |-> "idle", path |-> RootPath, res |-> "ok"]]
    /\ UNCHANGED <<now, m_cleanup, disk_threshold_reached, gc, mutex, cache, handles, not_evict>>

\* A call on another path begins.
GetattrCall(g, p) ==
    /\ getattr[g].pc = "idle"
    /\ getattr' = [getattr EXCEPT ![g] = [pc |-> "lock", path |-> p, res |-> "none"]]
    /\ UNCHANGED <<now, m_cleanup, disk_threshold_reached, gc, mutex, cache, handles, not_evict>>

\* std::lock_guard on the path's mutex.
GetattrLock(g) ==
    /\ getattr[g].pc = "lock"
    /\ mutex[get_mutex(getattr[g].path)] = "free"
    /\ mutex' = [mutex EXCEPT ![get_mutex(getattr[g].path)] = g]
    /\ getattr' = [getattr EXCEPT ![g].pc = "access"]
    /\ UNCHANGED <<now, m_cleanup, disk_threshold_reached, gc, cache, handles, not_evict>>

\* access(mntPath, F_OK): is the object in the local cache?
GetattrAccess(g) ==
    /\ getattr[g].pc = "access"
    /\ getattr' = [getattr EXCEPT ![g].pc =
                     IF cache[prepend_mnt_path_string(getattr[g].path)].exists
                     THEN "lstat" ELSE "remote"]
    /\ UNCHANGED <<now, m_cleanup, disk_threshold_reached, gc, mutex, cache, handles, not_evict>>

\* lstat(mntPath, stbuf) and return: 0, or -errno.
GetattrLstat(g) ==
    /\ getattr[g].pc = "lstat"
    /\ getattr' = [getattr EXCEPT ![g] =
                     [pc |-> "idle", path |-> RootPath,
                      res |-> IF cache[prepend_mnt_path_string(getattr[g].path)].exists
                              THEN "ok" ELSE "err"]]
    /\ mutex' = [mutex EXCEPT ![get_mutex(getattr[g].path)] = "free"]
    /\ UNCHANGED <<now, m_cleanup, disk_threshold_reached, gc, cache, handles, not_evict>>

\* The remote lookup (listing, then the property record) and return: 0 with a
\* directory or file record, or a negative code.
GetattrRemote(g) ==
    /\ getattr[g].pc = "remote"
    /\ \E r \in {"ok", "err"} :
          getattr' = [getattr EXCEPT ![g] = [pc |-> "idle", path |-> RootPath, res |-> r]]
    /\ mutex' = [mutex EXCEPT ![get_mutex(getattr[g].path)] = "free"]
    /\ UNCHANGED <<now, m_cleanup, disk_threshold_reached, gc, cache, handles, not_evict>>

----
\* The threads that use m_cleanup, with m_deque_lock followed step by step:
\* each std::lock_guard on it is one step, the statements of its block with
\* the end of the block another.

\* std::lock_guard<std::mutex> lock(m_deque_lock) in run_gc_cache, before the
\* peek and before the pop: blocks until the lock is free.
GcDequeLock ==
    /\ gc.pc \in {"peek", "pop"}
    /\ m_deque_lock = "free"
    /\ m_deque_lock' = "gc"
    /\ UNCHANGED <<now, m_cleanup, disk_threshold_reached, gc, mutex, cache, handles, getattr, not_deque>>

\* is_empty = m_cleanup.empty() is true; the block ends, then usleep and continue.
GcIdleLocked ==
    /\ gc.pc = "peek"
    /\ m_deque_lock = "gc"
    /\ m_cleanup = <<>>
    /\ m_deque_lock' = "free"
    /\ UNCHANGED <<now, m_cleanup, disk_threshold_reached, gc, mutex, cache, handles, getattr, not_deque>>

GcPeekLocked_KeepsLock ==
    /\ gc.pc = "peek"
    /\ m_deque_lock = "gc"
    /\ m_cleanup # <<>>
    /\ gc' = [GcStart EXCEPT !.pc = "check", !.file = Head(m_cleanup)]
    /\ UNCHANGED <<now, m_cleanup, m_deque_lock, disk_threshold_reached, mutex, cache, handles, getattr, not_deque>>

\* file = m_cleanup.front(); the block ends.
GcPeekLocked ==
    /\ gc.pc = "peek"
    /\ m_deque_lock = "gc"
    /\ m_cleanup # <<>>
    /\ gc' = [GcStart EXCEPT !.pc = "check", !.file = Head(m_cleanup)]
    /\ m_deque_lock' = "free"
    /\ UNCHANGED <<now, m_cleanup, disk_threshold_reached, mutex, cache, handles, getattr, not_deque>>

\* m_cleanup.pop_front(); the block ends, and with the enclosing block the
\* lock_guard on the path's mutex.
GcPopLocked ==
    /\ gc.pc = "pop"
    /\ m_deque_lock = "gc"
    /\ m_cleanup' = Tail(m_cleanup)
    /\ m_deque_lock' = "free"
    /\ mutex' = [mutex EXCEPT ![get_mutex(gc.file.path)] = "free"]
    /\ gc' = GcStart
    /\ UNCHANGED <<now, disk_threshold_reached, cache, handles, getattr, not_deque>>

\* std::lock_guard<std::mutex> lock(m_deque_lock) in add_file.
add_file_lock(h) ==
    /\ handles[h].pc = "closing"
    /\ m_deque_lock = "free"
    /\ m_deque_lock' = h
    /\ UNCHANGED <<now, m_cleanup, disk_threshold_reached, gc, mutex, cache, handles, getattr, not_deque>>

add_file_push_front(h) ==
    /\ handles[h].pc = "closing"
    /\ m_deque_lock = h
    /\ m_cleanup' = <<[path |-> handles[h].path,
                       closed_time |-> handles[h].closed_time]>> \o m_cleanup
    /\ m_deque_lock' = "free"
    /\ handles' = [handles EXCEPT ![h] = NoHandle]
    /\ UNCHANGED <<now, disk_threshold_reached, gc, mutex, cache, getattr, not_deque>>

\* m_cleanup.push_back(file); add_file returns.
add_file_push_back(h) ==
    /\ handles[h].pc = "closing"
    /\ m_deque_lock = h
    /\ m_cleanup' = Append(m_cleanup, [path |-> handles[h].path,
                                       closed_time |-> handles[h].closed_time])
    /\ m_deque_lock' = "free"
    /\ handles' = [handles EXCEPT ![h] = NoHandle]
    /\ UNCHANGED <<now, disk_threshold_reached, gc, mutex, cache, getattr, not_deque>>

----
(***************************************************************************)
(* Part 2.  The remote store's paged listing and                           *)
(* list_all_blobs_hierarchical.                                            *)
(***************************************************************************)

\* Bound of the model: the successful answers of the remote, within one
\* listing, that carry a continuation token and no new name.
MaxStalls == 1

\* static const int maxFailCount = 20.
maxFailCount == 20

\* The empty continuation token (std::string continuation, empty); any other
\* token is the number of names the remote has listed so far.
EmptyToken == -1

\* errno.h.
ENOENT == 2

\* errno values the remote client leaves after a failed call: one that
\* error_mapping knows and one that it does not.
RemoteErrors == {403, 500}

\* errno values the remote client leaves after a failed listing call, where
\* the caller does not tell one from another.
ListErrors == {500}

\* Names are strings, modelled as sequences of characters.  The objects the
\* container may hold under the prefix d/, in the order the remote lists them:
\* a file sorting before the legacy marker, the legacy marker of d, a file, and
\* a subdirectory (a blob prefix, flagged is_directory).
Name_dash == <<"d", "/", "-">>
Name_marker == <<"d", "/", ".", "d", "i", "r", "e", "c", "t", "o", "r", "y">>
Name_f == <<"d", "/", "f">>
Name_s == <<"d", "/", "s", "/">>
Universe == <<Name_dash, Name_marker, Name_f, Name_s>>

\* The members of seq whose index is in keep, in order.
RECURSIVE Select(_, _, _)
Select(seq, keep, i) ==
    IF i > Len(seq) THEN <<>>
    ELSE (IF i \in keep THEN <<seq[i]>> ELSE <<>>) \o Select(seq, keep, i + 1)

\* Every listing a container can give under the prefix.
Listings == {Select(Universe, keep, 1) : keep \in SUBSET (1..Len(Universe))}

Min(a, b) == IF a < b THEN a ELSE b

\* list_blobs_hierarchical of the remote client, when it succeeds: the answers
\* open to a call with this continuation token.  A page holds the names after
\* those already listed, at most maxresults of them (any number when maxresults
\* is 0); it may be empty, and may begin by repeating the last name of the page
\* before.  next_marker is empty only when the listing is complete.
list_blobs_hierarchical(listing, continuation, maxresults) ==
    LET listed == IF continuation = EmptyToken THEN 0 ELSE continuation
        n == Len(listing)
        limit == IF maxresults <= 0 THEN n + 1 ELSE maxresults
    IN  UNION {
          { [blobs |-> SubSeq(listing, first, last), next_marker |-> m, listed |-> last] :
              m \in {last} \cup (IF last = n THEN {EmptyToken} ELSE {}) } :
          first \in (IF listed >= 1 THEN {listed, listed + 1} ELSE {1}),
          last \in listed..Min(n, listed + limit) }

\* The answers that are within the page size.
ListAnswers(listing, continuation, maxresults) ==
    {r \in list_blobs_hierarchical(listing, continuation, maxresults) :
        maxresults > 0 => Len(r.blobs) <= maxresults}

\* An answer that asks to be continued and brings no new name.
Stalls(r, continuation) ==
    /\ r.next_marker # EmptyToken
    /\ r.listed = (IF continuation = EmptyToken THEN 0 ELSE continuation)

\* The listing begins: the locals of list_all_blobs_hierarchical.
ListStart(maxresults) ==
    [pc |-> "call", maxresults |-> maxresults, continuation |-> EmptyToken, prior |-> <<>>,
     success |-> FALSE, failcount |-> 0, results |-> <<>>, errno |-> 0]

skip_first_Never(blobs, prior) == FALSE

\* bool skip_first = (response.blobs[0].name == prior).
skip_first(blobs, prior) == blobs[1] = prior

KeepListing_OneMore(continuation, success, failcount) ==
    (continuation # EmptyToken \/ ~success) /\ (failcount <= maxFailCount)

\* while ((!continuation.empty() || !success) && (failcount < maxFailCount)).
KeepListing(continuation, success, failcount) ==
    (continuation # EmptyToken \/ ~success) /\ (failcount < maxFailCount)

\* One pass of the loop in which the remote call succeeds (errno == 0).
ListCallOk ==
    /\ list.pc = "call"
    /\ \E r \in ListAnswers(remote.listing, list.continuation, list.maxresults) :
          /\ Stalls(r, list.continuation) => remote.stalls < MaxStalls
          /\ list' = [list EXCEPT
                        !.success = TRUE,
                        !.failcount = 0,
                        !.errno = 0,
                        !.continuation = r.next_marker,
                        !.prior = IF Len(r.blobs) > 0 THEN r.blobs[Len(r.blobs)] ELSE @,
                        !.results = IF Len(r.blobs) > 0
                                    THEN Append(@, [blobs |-> r.blobs,
                                                    skip_first |-> skip_first(r.blobs, list.prior)])
                                    ELSE @,
                        !.pc = IF KeepListing(r.next_marker, TRUE, 0) THEN "call" ELSE "done"]
          /\ remote' = [remote EXCEPT
                          !.stalls = IF Stalls(r, list.continuation) THEN @ + 1 ELSE @,
                          !.consec_fails = 0,
                          !.last_token = list.continuation]
    /\ UNCHANGED not_list

\* One pass of the loop in which the remote call fails (errno != 0).
ListCallFail ==
    /\ list.pc = "call"
    /\ \E e \in remote.faults :
          list' = [list EXCEPT
                     !.success = FALSE,
                     !.failcount = @ + 1,
                     !.errno = e,
                     !.pc = IF KeepListing(list.continuation, FALSE, list.failcount + 1)
                            THEN "call" ELSE "done"]
    /\ remote' = [remote EXCEPT
                    !.consec_fails = @ + 1,
                    !.last_token = list.continuation]
    /\ UNCHANGED not_list

ListStep == ListCallOk \/ ListCallFail

(***************************************************************************)
(* Part 3.  is_directory_empty.                                            *)
(***************************************************************************)

\* The legacy empty-directory marker suffix, ".directory" (set outside
\* utilities.cpp).
former_directory_signifier == <<".", "d", "i", "r", "e", "c", "t", "o", "r", "y">>

\* What the container may hold at the directory's own key: nothing, a
\* zero-size object flagged as a folder, a zero-size object with no metadata,
\* or an object with content that carries the folder flag.
NoObject == [valid |-> FALSE, size |-> 0, metadata |-> <<>>, last_modified |-> 0]
FolderObject ==
    [valid |-> TRUE, size |-> 0, metadata |-> <<<<"hdi_isfolder", "true">>>>,
     last_modified |-> 1]
EmptyFileObject == [valid |-> TRUE, size |-> 0, metadata |-> <<>>, last_modified |-> 2]
FlaggedFileObject ==
    [valid |-> TRUE, size |-> 1, metadata |-> <<<<"hdi_isfolder", "true">>>>,
     last_modified |-> 3]
Objects == {NoObject, FolderObject, EmptyFileObject, FlaggedFileObject}

is_directory_blob(size, metadata) ==
    /\ size = 0
    /\ \E i \in 1..Len(metadata) :
          metadata[i][1] = "hdi_isfolder" /\ metadata[i][2] = "true"

\* get_blob_property of the remote client: the property record and the errno
\* it leaves.  A missing object gives 404; any call may fail otherwise.
get_blob_property(object) ==
    {[props |-> object, errno |-> IF object.valid THEN 0 ELSE 404]}
       \cup {[props |-> NoObject, errno |-> e] : e \in RemoteErrors}

\* list_blobs_hierarchical_item::is_directory: the entry is a blob prefix.
is_directory(name) == name[Len(name)] = "/"

\* name ends with suffix, and is longer.
EndsWith(name, suffix) ==
    /\ Len(name) > Len(suffix)
    /\ SubSeq(name, Len(name) - Len(suffix) + 1, Len(name)) = suffix

DirIdle ==
    [pc |-> "idle", dir_blob_exists |-> FALSE, continuation |-> EmptyToken,
     success |-> FALSE, failcount |-> 0, old_dir_blob_found |-> FALSE,
     ret |-> "none", errno |-> 0]

\* is_directory_empty is called.
DirStart == [DirIdle EXCEPT !.pc = "property"]

\* The property lookup of the directory's own key.
DirProperty ==
    /\ dir.pc = "property"
    /\ \E r \in get_blob_property(remote.object) :
          dir' = IF r.errno # 0 /\ r.errno # 404 /\ r.errno # ENOENT
                 THEN [dir EXCEPT !.pc = "done", !.ret = "-1", !.errno = r.errno]
                 ELSE [dir EXCEPT !.pc = "list", !.errno = r.errno,
                          !.dir_blob_exists =
                              (r.errno = 0 /\ r.props.valid
                               /\ is_directory_blob(r.props.size, r.props.metadata))]
    /\ UNCHANGED <<remote>>
    /\ UNCHANGED not_dir

\* The single entry of a page is the legacy marker, the first one seen.
IsFirstLegacyMarker(name) ==
    /\ ~dir.old_dir_blob_found
    /\ ~is_directory(name)
    /\ EndsWith(name, former_directory_signifier)

DirResult_IgnoresFailure(success, old_dir_blob_found) ==
    IF old_dir_blob_found \/ dir.dir_blob_exists THEN "D_EMPTY" ELSE "D_NOTEXIST"

\* The result once the loop has ended.
DirResult(success, old_dir_blob_found) ==
    IF ~success THEN "-1"
    ELSE IF old_dir_blob_found \/ dir.dir_blob_exists THEN "D_EMPTY" ELSE "D_NOTEXIST"

\* while ((continuation.size() > 0 || !success) && failcount < 20).
DirKeepListing(continuation, success, failcount) ==
    (continuation # EmptyToken \/ ~success) /\ failcount < 20

\* One pass of the loop in which the listing of at most 2 entries succeeds.
DirListOk ==
    /\ dir.pc = "list"
    /\ \E r \in ListAnswers(remote.listing, dir.continuation, 2) :
          /\ Stalls(r, dir.continuation) => remote.stalls < MaxStalls
          /\ remote' = [remote EXCEPT
                          !.stalls = IF Stalls(r, dir.continuation) THEN @ + 1 ELSE @,
                          !.consec_fails = 0,
                          !.last_token = dir.continuation]
          /\ LET found == Len(r.blobs) = 1 /\ IsFirstLegacyMarker(r.blobs[1])
                 notempty == Len(r.blobs) > 1 \/ (Len(r.blobs) = 1 /\ ~found)
                 old == dir.old_dir_blob_found \/ found
                 base == [dir EXCEPT !.success = TRUE, !.failcount = 0, !.errno = 0,
                                     !.continuation = r.next_marker,
                                     !.old_dir_blob_found = old]
             IN  dir' = IF notempty
                        THEN [base EXCEPT !.pc = "done", !.ret = "D_NOTEMPTY"]
                        ELSE IF DirKeepListing(r.next_marker, TRUE, 0) THEN base
                        ELSE [base EXCEPT !.pc = "done", !.ret = DirResult(TRUE, old)]
    /\ UNCHANGED not_dir

\* One pass of the loop in which the listing fails.
DirListFail ==
    /\ dir.pc = "list"
    /\ \E e \in remote.faults :
          LET base == [dir EXCEPT !.success = FALSE, !.failcount = @ + 1, !.errno = e]
          IN  dir' = IF DirKeepListing(dir.continuation, FALSE, dir.failcount + 1) THEN base
                     ELSE [base EXCEPT !.pc = "done",
                                       !.ret = DirResult(FALSE, dir.old_dir_blob_found)]
    /\ remote' = [remote EXCEPT
                    !.consec_fails = @ + 1,
                    !.last_token = dir.continuation]
    /\ UNCHANGED not_dir

\* No listing is in progress.
ListIdle ==
    [pc |-> "idle", maxresults |-> 0, continuation |-> EmptyToken, prior |-> <<>>,
     success |-> FALSE, failcount |-> 0, results |-> <<>>, errno |-> 0]

\* A remote store that lists nothing and has not been called.
NoRemote ==
    [object |-> NoObject, listing |-> <<>>, stalls |-> 0, consec_fails |-> 0,
     last_token |-> EmptyToken, faults |-> ListErrors]

(***************************************************************************)
(* Part 4.  azs_rename and azs_rename_directory.                           *)
(***************************************************************************)

\* errno.h.
EIO == 5
EACCES == 13

\* error_mapping (set outside utilities.cpp): storage error codes with a local
\* errno.
error_mapping == [e \in {403, 404} |-> IF e = 403 THEN EACCES ELSE ENOENT]

map_errno(error) ==
    IF error \notin DOMAIN error_mapping THEN EIO ELSE error_mapping[error]

\* The directory renamed, src with '/' appended, as azs_rename_directory holds it.
srcPathStr == <<"/", "d", "/">>

\* std::string::substr(pos, len) and substr(pos), pos counted from 0.
substr(str, pos, len) == SubSeq(str, pos + 1, Min(Len(str), pos + len))
substr_from(str, pos) == SubSeq(str, pos + 1, Len(str))

\* The trailing part of a listed name.
prev_token_str(name) ==
    IF name[Len(name)] = "/"
    THEN substr(name, Len(srcPathStr) - 1, Len(name) - Len(srcPathStr))
    ELSE substr_from(name, Len(srcPathStr) - 1)

\* What readdir may return in the cache directory of src ("." and ".." are
\* there always, and are passed over like any name that begins with '.').
LocalEntries ==
    { [d_name |-> <<".", "d", "i", "r", "e", "c", "t", "o", "r", "y">>, d_type |-> "DT_REG"],
      [d_name |-> <<"f">>, d_type |-> "DT_REG"],
      [d_name |-> <<"s">>, d_type |-> "DT_DIR"] }

\* The names under src that a rename can be asked for.
Names ==
    {e.d_name : e \in LocalEntries} \cup {prev_token_str(Universe[i]) : i \in 1..Len(Universe)}

\* What a caller reads from the pages: every entry, from index 1 of a page
\* flagged skip_first and from index 0 of any other.
RECURSIVE Flatten(_)
Flatten(results) ==
    IF results = <<>> THEN <<>>
    ELSE (IF Head(results).skip_first THEN Tail(Head(results).blobs)
          ELSE Head(results).blobs) \o Flatten(Tail(results))

RenIdle ==
    [pc |-> "idle", dir_stream |-> FALSE, entries |-> {}, unread |-> {},
     local_list_results |-> {}, items |-> <<>>, i |-> 0, errno |-> 0,
     top_renamed |-> FALSE, marker_renamed |-> FALSE,
     local_renames |-> [n \in Names |-> 0], remote_renames |-> [n \in Names |-> 0],
     nested_failed |-> FALSE, rmdir |-> FALSE, dir_ret |-> 0, ret |-> 0]

\* azs_rename(src, dst) is called; the cache directory of src is there or not.
RenStart(dir_stream, entries) ==
    [RenIdle EXCEPT !.pc = "getattr", !.dir_stream = dir_stream, !.entries = entries]

\* The results open to azs_getattr, and to a nested azs_rename_directory.
GetattrErrors == {0 - ENOENT, 0 - EIO}
RenameDirectoryResults == {0} \cup {0 - map_errno(e) : e \in RemoteErrors}

\* azs_rename up to its dispatch: azs_getattr fails, or src is a file and is
\* renamed, or src is a directory and azs_rename_directory is entered.
RenGetattr ==
    /\ ren.pc = "getattr"
    /\ \/ \E getattrret \in GetattrErrors :
             ren' = [ren EXCEPT !.pc = "done", !.ret = getattrret]
       \/ ren' = [ren EXCEPT !.pc = "done", !.top_renamed = TRUE, !.ret = 0]
       \/ ren' = [ren EXCEPT !.pc = "property"]
    /\ UNCHANGED <<list, remote>>
    /\ UNCHANGED not_ren

\* azs_rename_directory: the directory object, if there is one, is renamed.
\* errno is what get_blob_property, or the rename after it, has left.
RenProperty ==
    /\ ren.pc = "property"
    /\ \E r \in get_blob_property(remote.object) :
          LET isdir == /\ r.errno = 0
                       /\ r.props.valid
                       /\ is_directory_blob(r.props.size, r.props.metadata)
          IN  \E e \in (IF isdir THEN {0} \cup RemoteErrors ELSE {r.errno}) :
                 ren' = IF e # 0 /\ e # 404 /\ e # ENOENT
                        THEN [ren EXCEPT !.pc = "return", !.errno = e,
                                         !.marker_renamed = isdir,
                                         !.dir_ret = 0 - map_errno(e)]
                        ELSE [ren EXCEPT !.pc = "opendir", !.errno = e,
                                         !.marker_renamed = isdir]
    /\ UNCHANGED <<list, remote>>
    /\ UNCHANGED not_ren

\* opendir of the cache directory of src.
RenOpendir ==
    /\ ren.pc = "opendir"
    /\ ren' = [ren EXCEPT !.pc = "local",
                          !.unread = IF ren.dir_stream THEN ren.entries ELSE {}]
    /\ UNCHANGED <<list, remote>>
    /\ UNCHANGED not_ren

\* One pass of the readdir loop, in whatever order readdir gives the entries.
RenLocalEntry ==
    /\ ren.pc = "local"
    /\ \E dir_ent \in ren.unread :
          IF dir_ent.d_name[1] # "."
          THEN \E result \in (IF dir_ent.d_type = "DT_DIR"
                              THEN RenameDirectoryResults ELSE {0}) :
                  ren' = [ren EXCEPT
                            !.unread = @ \ {dir_ent},
                            !.local_renames[dir_ent.d_name] = @ + 1,
                            !.nested_failed = @ \/ (result < 0),
                            !.local_list_results = @ \cup {dir_ent.d_name}]
          ELSE ren' = [ren EXCEPT !.unread = @ \ {dir_ent}]
    /\ UNCHANGED <<list, remote>>
    /\ UNCHANGED not_ren

\* readdir has no more entries (or there was no directory): errno = 0 and
\* list_all_blobs_hierarchical is called.
RenListStart ==
    /\ ren.pc = "local"
    /\ ren.unread = {}
    /\ ren' = [ren EXCEPT !.pc = "list", !.errno = 0]
    /\ list' = ListStart(0)
    /\ UNCHANGED <<remote>>
    /\ UNCHANGED not_ren

\* The remote's record of one listing is over with the listing.
ForgetListing ==
    [remote EXCEPT !.stalls = 0, !.consec_fails = 0, !.last_token = EmptyToken]

RenListFailed_GoesOn ==
    /\ ren.pc = "list"
    /\ list.pc = "done"
    /\ list.errno # 0
    /\ ren' = [ren EXCEPT !.pc = "remote", !.errno = list.errno,
                          !.items = Flatten(list.results), !.i = 1]
    /\ list' = ListIdle
    /\ remote' = ForgetListing
    /\ UNCHANGED not_ren

\* The listing failed: return 0 - map_errno(storage_errno).
RenListFailed ==
    /\ ren.pc = "list"
    /\ list.pc = "done"
    /\ list.errno # 0
    /\ ren' = [ren EXCEPT !.pc = "return", !.errno = list.errno,
                          !.dir_ret = 0 - map_errno(list.errno)]
    /\ list' = ListIdle
    /\ remote' = ForgetListing
    /\ UNCHANGED not_ren

\* The listing succeeded: the two loops will visit the entries of each page
\* from its start index on.
RenListed ==
    /\ ren.pc = "list"
    /\ list.pc = "done"
    /\ list.errno = 0
    /\ ren' = [ren EXCEPT !.pc = "remote", !.items = Flatten(list.results), !.i = 1]
    /\ list' = ListIdle
    /\ remote' = ForgetListing
    /\ UNCHANGED not_ren

NotLocallyHandled_Always(name, local_list_results) == TRUE

\* std::find(local_list_results.begin(), local_list_results.end(), name) ==
\* local_list_results.end().
NotLocallyHandled(name, local_list_results) == name \notin local_list_results

\* One pass of the inner loop over the listed entries.
RenRemoteEntry ==
    /\ ren.pc = "remote"
    /\ ren.i <= Len(ren.items)
    /\ LET name == ren.items[ren.i]
           trailing == prev_token_str(name)
       IN  IF /\ Len(name) > 0
              /\ Len(trailing) > 0
              /\ NotLocallyHandled(trailing, ren.local_list_results)
           THEN \E result \in (IF is_directory(name)
                               THEN RenameDirectoryResults ELSE {0}) :
                   ren' = [ren EXCEPT
                             !.i = @ + 1,
                             !.remote_renames[trailing] = @ + 1,
                             !.nested_failed = @ \/ (result < 0)]
           ELSE ren' = [ren EXCEPT !.i = @ + 1]
    /\ UNCHANGED <<list, remote>>
    /\ UNCHANGED not_ren

\* azs_rmdir(src); return 0.
RenRmdir ==
    /\ ren.pc = "remote"
    /\ ren.i > Len(ren.items)
    /\ ren' = [ren EXCEPT !.pc = "return", !.rmdir = TRUE, !.dir_ret = 0,
                          !.items = <<>>, !.i = 0]
    /\ UNCHANGED <<list, remote>>
    /\ UNCHANGED not_ren

\* Back in azs_rename after azs_rename_directory: return 0.
RenReturn ==
    /\ ren.pc = "return"
    /\ ren' = [ren EXCEPT !.pc = "done", !.ret = 0]
    /\ UNCHANGED <<list, remote>>
    /\ UNCHANGED not_ren

(***************************************************************************)
(* Part 5.  azs_getattr, one call followed through the remote lookup.      *)
(***************************************************************************)

\* The paths asked for: the root, and a path of one name.
GaRootPath == <<"/">>
GaPath == <<"/", "d">>

\* std::string blobNameStr(&(path[1])).
blobNameStr(path) == SubSeq(path, 2, Len(path))

\* The character codes of the characters in the listed names.
Ord(c) ==
    CASE c = "-" -> 45
      [] c = "." -> 46
      [] c = "/" -> 47
      [] c = "0" -> 48
      [] c = "d" -> 100

\* std::string::compare: negative, zero or positive as a sorts before, with
\* or after b.
RECURSIVE compare(_, _)
compare(a, b) ==
    IF a = <<>> /\ b = <<>> THEN 0
    ELSE IF a = <<>> THEN 0 - 1
    ELSE IF b = <<>> THEN 1
    ELSE IF Ord(Head(a)) < Ord(Head(b)) THEN 0 - 1
    ELSE IF Ord(Head(a)) > Ord(Head(b)) THEN 1
    ELSE compare(Tail(a), Tail(b))

\* What the remote may list for the prefix "d" with delimiter "/", in its
\* order: the object d itself, objects whose names sort before "d/", the
\* prefix "d/" that stands for everything under the directory, and an object
\* whose name sorts after it.
TopUniverse == << <<"d">>, <<"d", "-">>, <<"d", ".">>, <<"d", "/">>, <<"d", "0">> >>

\* The listings of a container that holds object at the key "d".
TopListings(object) ==
    {Select(TopUniverse, keep, 1) :
        keep \in {k \in SUBSET (1..Len(TopUniverse)) : (1 \in k) <=> object.valid}}

\* list_blobs_hierarchical_item::metadata of a listed name: that of the object
\* for the object's own name, none for another.
item_metadata(name) == IF name = <<"d">> THEN remote.object.metadata ELSE <<>>

\* is_directory_blob(0, blobItem.metadata) || blobItem.is_directory ||
\* blobItem.name == (blobNameStr + '/').
DirectorySignal(name, blobName) ==
    \/ is_directory_blob(0, item_metadata(name))
    \/ is_directory(name)
    \/ name = blobName \o <<"/">>

ScanItem_AnyNameMatches(st, name, blobName) ==
    [blobItem |-> IF st.blobItem = <<>> THEN name ELSE st.blobItem,
     dirSize |-> st.dirSize,
     brk |-> FALSE]

\* The body of the inner loop for one listed entry: the locals after it, and
\* whether it left the loop by break.
ScanItem(st, name, blobName) ==
    LET less == compare(name, blobName \o <<"/">>) < 0
        counted == IF less THEN st.dirSize + 1 ELSE st.dirSize
        brk == less /\ counted > 2 /\ st.blobItem # <<>>
        match == /\ ~brk
                 /\ st.blobItem = <<>>
                 /\ (name = blobName \/ name = blobName \o <<"/">>)
    IN  [blobItem |-> IF match THEN name ELSE st.blobItem,
         dirSize |-> IF match /\ counted = 0 /\ DirectorySignal(name, blobName)
                     THEN 1 ELSE counted,
         brk |-> brk]

\* The inner loop over one page from index i on.
RECURSIVE ScanBatch(_, _, _, _)
ScanBatch(listResults, i, st, blobName) ==
    IF i > Len(listResults) THEN st
    ELSE LET after == ScanItem(st, listResults[i], blobName)
         IN  IF after.brk THEN after
             ELSE ScanBatch(listResults, i + 1, after, blobName)

\* The outer loop over the pages from batchNum on.
RECURSIVE ScanPages(_, _, _, _)
ScanPages(listResponse, batchNum, st, blobName) ==
    IF batchNum > Len(listResponse) THEN st
    ELSE ScanPages(listResponse, batchNum + 1,
                   ScanBatch(listResponse[batchNum].blobs,
                             IF listResponse[batchNum].skip_first THEN 2 ELSE 1,
                             st, blobName),
                   blobName)

\* struct stat, the fields azs_getattr sets.
NoStbuf == [st_mode |-> "none", st_nlink |-> 0, st_size |-> 0, st_mtime |-> 0]

\* What lstat gives for the object in the local cache.
LocalStbuf == [st_mode |-> "S_IFREG", st_nlink |-> 1, st_size |-> 5, st_mtime |-> 4]

\* errno values lstat may leave.
LstatErrors == {EACCES, EIO}

GaIdle ==
    [pc |-> "idle", path |-> GaRootPath, local |-> "absent", fmutex |-> "none",
     probed |-> FALSE, property_calls |-> 0, blobItem |-> <<>>, dirSize |-> 0,
     stbuf |-> NoStbuf, ret |-> 0]

\* azs_getattr(path, stbuf) is called; the object is in the local cache or not.
GaStart(path, local) == [GaIdle EXCEPT !.pc = "start", !.path = path, !.local = local]

GaRoot_LikeAnyPath ==
    /\ ga.pc = "start"
    /\ Len(ga.path) = 1
    /\ ga' = [ga EXCEPT !.pc = "access", !.fmutex = "held"]
    /\ UNCHANGED <<list, remote>>
    /\ UNCHANGED not_ga

\* The root is a directory.
GaRoot ==
    /\ ga.pc = "start"
    /\ Len(ga.path) = 1
    /\ ga' = [ga EXCEPT !.pc = "done", !.ret = 0,
                        !.stbuf = [st_mode |-> "S_IFDIR", st_nlink |-> 2,
                                   st_size |-> 4096, st_mtime |-> now]]
    /\ UNCHANGED <<list, remote>>
    /\ UNCHANGED not_ga

\* std::lock_guard on the path's mutex.
GaLock ==
    /\ ga.pc = "start"
    /\ Len(ga.path) # 1
    /\ ga' = [ga EXCEPT !.pc = "access", !.fmutex = "held"]
    /\ UNCHANGED <<list, remote>>
    /\ UNCHANGED not_ga

GaAccess_RemoteFirst ==
    /\ ga.pc = "access"
    /\ ga' = [ga EXCEPT !.pc = "list", !.probed = TRUE]
    /\ list' = ListStart(2)
    /\ UNCHANGED <<remote>>
    /\ UNCHANGED not_ga

\* access(mntPath, F_OK); if the object is not in the local cache, errno = 0
\* and list_all_blobs_hierarchical is called with resultCount 2.
GaAccess ==
    /\ ga.pc = "access"
    /\ IF ga.local = "present"
       THEN /\ ga' = [ga EXCEPT !.pc = "lstat", !.probed = TRUE]
            /\ UNCHANGED list
       ELSE /\ ga' = [ga EXCEPT !.pc = "list", !.probed = TRUE]
            /\ list' = ListStart(2)
    /\ UNCHANGED <<remote>>
    /\ UNCHANGED not_ga

\* lstat(mntPath, stbuf) and return: 0, or -lstaterrno.
GaLstat ==
    /\ ga.pc = "lstat"
    /\ \/ ga' = [ga EXCEPT !.pc = "done", !.fmutex = "released", !.ret = 0,
                           !.stbuf = LocalStbuf]
       \/ \E lstaterrno \in LstatErrors :
             ga' = [ga EXCEPT !.pc = "done", !.fmutex = "released",
                              !.ret = 0 - lstaterrno]
    /\ UNCHANGED <<list, remote>>
    /\ UNCHANGED not_ga

\* The listing succeeded: the pages are scanned for the exact name, and the
\* result is a directory record, or -ENOENT, or (for a file) follows the
\* property call.
GaListed ==
    /\ ga.pc = "list"
    /\ list.pc = "done"
    /\ list.errno = 0
    /\ LET blobName == blobNameStr(ga.path)
           st == ScanPages(list.results, 1, [blobItem |-> <<>>, dirSize |-> 0], blobName)
           found == [ga EXCEPT !.blobItem = st.blobItem, !.dirSize = st.dirSize]
       IN  ga' = IF Len(list.results) > 0
                 THEN IF st.blobItem # <<>> /\ DirectorySignal(st.blobItem, blobName)
                      THEN [found EXCEPT
                              !.pc = "done", !.fmutex = "released", !.ret = 0,
                              !.stbuf = [st_mode |-> "S_IFDIR",
                                         st_nlink |-> IF st.dirSize > 1 THEN 3 ELSE 2,
                                         st_size |-> 4096, st_mtime |-> 0]]
                      ELSE IF st.blobItem # <<>>
                      THEN [found EXCEPT !.pc = "property"]
                      ELSE [found EXCEPT !.pc = "done", !.fmutex = "released",
                                         !.ret = 0 - ENOENT]
                 ELSE [ga EXCEPT !.pc = "done", !.fmutex = "released",
                                 !.ret = 0 - ENOENT]
    /\ UNCHANGED <<list, remote>>
    /\ UNCHANGED not_ga

\* The exact match is a file: get_blob_property, whose errno is not looked
\* at, and a regular-file record from what it returned.
GaProperty ==
    /\ ga.pc = "property"
    /\ \E r \in get_blob_property(remote.object) :
          ga' = [ga EXCEPT !.pc = "done", !.fmutex = "released", !.ret = 0,
                           !.property_calls = @ + 1,
                           !.stbuf = [st_mode |-> "S_IFREG", st_nlink |-> 1,
                                      st_size |-> r.props.size,
                                      st_mtime |-> r.props.last_modified]]
    /\ UNCHANGED <<list, remote>>
    /\ UNCHANGED not_ga

GaListFailed_NotFound ==
    /\ ga.pc = "list"
    /\ list.pc = "done"
    /\ list.errno > 0
    /\ ga' = [ga EXCEPT !.pc = "done", !.fmutex = "released", !.ret = 0 - ENOENT]
    /\ UNCHANGED <<list, remote>>
    /\ UNCHANGED not_ga

\* The listing failed: return 0 - map_errno(storage_errno).
GaListFailed ==
    /\ ga.pc = "list"
    /\ list.pc = "done"
    /\ list.errno > 0
    /\ ga' = [ga EXCEPT !.pc = "done", !.fmutex = "released",
                        !.ret = 0 - map_errno(list.errno)]
    /\ UNCHANGED <<list, remote>>
    /\ UNCHANGED not_ga

Init ==
    /\ EvictInit
    /\ list = ListIdle
    /\ remote = NoRemote
    /\ dir = DirIdle
    /\ ren = RenIdle
    /\ ga = GaIdle

\* The eviction worker and the file handles, with the clock.
Next ==
    \/ Tick
    \/ GcStep
    \/ \E h \in Handles, p \in Paths : HOpen(h, p)
    \/ \E h \in Handles : HWrite(h)
    \/ \E h \in Handles : HClose(h)
    \/ \E h \in Handles : add_file_push(h)

Spec == Init /\ [][Next]_vars

\* The eviction worker and the file handles with the getattr threads, all
\* contending for the path mutexes; the clock stands still.
LockNext ==
    \/ GcStep
    \/ \E h \in Handles, p \in Paths : HOpen(h, p)
    \/ \E h \in Handles : HClose(h)
    \/ \E h \in Handles : add_file_push(h)
    \/ \E g \in Getattrs : GetattrRoot(g)
    \/ \E g \in Getattrs, p \in Paths : GetattrCall(g, p)
    \/ \E g \in Getattrs : GetattrLock(g)
    \/ \E g \in Getattrs : GetattrAccess(g)
    \/ \E g \in Getattrs : GetattrLstat(g)
    \/ \E g \in Getattrs : GetattrRemote(g)

LockSpec == Init /\ [][LockNext]_vars

\* The eviction worker, the add_file callers and the getattr threads, with
\* m_deque_lock taken and released step by step; the clock stands still.
DequeNext ==
    \/ GcDequeLock
    \/ GcIdleLocked
    \/ GcPeekLocked
    \/ GcCheckEligible
    \/ GcCheckNotTimedOut
    \/ GcLock
    \/ GcStat
    \/ GcOpen
    \/ GcFlock
    \/ GcUnlink
    \/ GcUpdateDisk
    \/ GcPopLocked
    \/ \E h \in Handles, p \in Paths : HOpen(h, p)
    \/ \E h \in Handles : HClose(h)
    \/ \E h \in Handles : add_file_lock(h)
    \/ \E h \in Handles : add_file_push_back(h)
    \/ \E g \in Getattrs, p \in Paths : GetattrCall(g, p)
    \/ \E g \in Getattrs : GetattrLock(g)
    \/ \E g \in Getattrs : GetattrAccess(g)
    \/ \E g \in Getattrs : GetattrLstat(g)
    \/ \E g \in Getattrs : GetattrRemote(g)

DequeSpec == Init /\ [][DequeNext]_vars

\* The model's clock ends at MaxTime: a handle closed before that leaves time
\* for the clock to advance past its closure.
HCloseBeforeEnd(h) == now < MaxTime /\ HClose(h)

\* The eviction worker with the clock and the file handles: one handle opens
\* and closes files, the other keeps open whatever it has opened.  The path
\* mutexes are taken by the worker, and by an open for the length of its step.
FairEvictNext ==
    \/ Tick
    \/ GcStep
    \/ \E h \in Handles, p \in Paths : HOpen(h, p)
    \/ HCloseBeforeEnd("h1")
    \/ add_file_push("h1")

\* The clock advances and the worker thread keeps being scheduled.
FairEvictSpec ==
    /\ Init
    /\ [][FairEvictNext]_vars
    /\ WF_vars(Tick)
    /\ WF_vars(GcStep)

\* list_all_blobs_hierarchical alone, on every listing and with both page
\* sizes its callers use (2, and 0 for no limit).
ListInit ==
    /\ EvictInit
    /\ \E maxresults \in {0, 2} : list = ListStart(maxresults)
    /\ \E listing \in Listings : remote = [NoRemote EXCEPT !.listing = listing]
    /\ dir = DirIdle
    /\ ren = RenIdle
    /\ ga = GaIdle

ListNext == ListStep

ListSpec == ListInit /\ [][ListNext]_vars

\* The loop keeps running until it ends.
FairListSpec == ListSpec /\ WF_vars(ListNext)

\* is_directory_empty alone, on every container.
DirInit ==
    /\ EvictInit
    /\ list = ListIdle
    /\ \E object \in Objects, listing \in Listings :
          remote = [NoRemote EXCEPT !.object = object, !.listing = listing]
    /\ dir = DirStart
    /\ ren = RenIdle
    /\ ga = GaIdle

DirNext ==
    \/ DirProperty
    \/ DirListOk
    \/ DirListFail

DirSpec == DirInit /\ [][DirNext]_vars

\* azs_rename alone, on every listing, with or without a folder object at the
\* directory's key, and on every cache directory.
RenameInit ==
    /\ EvictInit
    /\ list = ListIdle
    /\ dir = DirIdle
    /\ \E object \in {NoObject, FolderObject}, listing \in Listings :
          remote = [NoRemote EXCEPT !.object = object, !.listing = listing]
    /\ ga = GaIdle
    /\ \/ ren = RenStart(FALSE, {})
       \/ \E entries \in SUBSET LocalEntries : ren = RenStart(TRUE, entries)

RenameNext ==
    \/ RenGetattr
    \/ RenProperty
    \/ RenOpendir
    \/ RenLocalEntry
    \/ RenListStart
    \/ ListCallOk
    \/ ListCallFail
    \/ RenListFailed
    \/ RenListed
    \/ RenRemoteEntry
    \/ RenRmdir
    \/ RenReturn

RenameSpec == RenameInit /\ [][RenameNext]_vars

\* One azs_getattr call, on the root or on a path of one name, the object in
\* the local cache or not, on every container and listing of the path's
\* prefix, the remote failing with a status that error_mapping knows or not.
GetattrInit ==
    /\ EvictInit
    /\ list = ListIdle
    /\ dir = DirIdle
    /\ ren = RenIdle
    /\ \E object \in Objects :
       \E listing \in TopListings(object) :
          remote = [NoRemote EXCEPT !.object = object, !.listing = listing,
                                    !.faults = RemoteErrors]
    /\ \E path \in {GaRootPath, GaPath}, local \in {"absent", "present"} :
          ga = GaStart(path, local)

GetattrNext ==
    \/ GaRoot
    \/ GaLock
    \/ GaAccess
    \/ GaLstat
    \/ ListCallOk
    \/ ListCallFail
    \/ GaListed
    \/ GaProperty
    \/ GaListFailed

GetattrSpec == GetattrInit /\ [][GetattrNext]_vars

----
\* Properties of the eviction worker, the handles and the getattr threads.

\* The worker's critical section on a path: re-stat, open, advisory-lock
\* attempt, unlink.
GcInCriticalSection(p) ==
    gc.pc \in {"stat", "open", "flock", "unlink"} /\ gc.file.path = p

\* A getattr's critical section on a path: existence probe, lstat, remote lookup.
GetattrInCriticalSection(g, p) ==
    getattr[g].pc \in {"access", "lstat", "remote"} /\ getattr[g].path = p

\* C1: on any one path the worker's critical section and the critical sections
\* of the getattr threads are never in progress together, and a path's mutex is
\* only ever held by a thread working on that very path, so that work on one
\* path never blocks work on another.
C1_PathLockSerializes ==
    \A p \in Paths :
        /\ \A g \in Getattrs : ~(GcInCriticalSection(p) /\ GetattrInCriticalSection(g, p))
        /\ \A g1 \in Getattrs, g2 \in Getattrs :
              (g1 # g2) => ~(GetattrInCriticalSection(g1, p) /\ GetattrInCriticalSection(g2, p))
        /\ (mutex[p] = "gc") => (gc.file.path = p)
        /\ \A g \in Getattrs : (mutex[p] = g) => (getattr[g].path = p)

\* The worker is inside its critical section on /a while one getattr waits for
\* /a and another is inside its critical section on /b.
C1_Witness ==
    /\ GcInCriticalSection("/a")
    /\ getattr["g1"].pc = "lock" /\ getattr["g1"].path = "/a"
    /\ GetattrInCriticalSection("g2", "/b")

\* The cache file named p is unlinked by this step.
Unlinked(p) == cache[p].exists /\ ~cache'[p].exists

\* C2: a cached file is unlinked only by the worker at its unlink step, in a
\* cycle on that file, holding the file's path mutex, after the re-stat test
\* held in that cycle (now - mtime and now - ctime both above the timeout, or
\* the threshold flag true) and after flock(LOCK_EX|LOCK_NB) succeeded on the
\* descriptor it opened.
C2_UnlinkOnlyStaleAndLocked ==
    [][\A p \in Paths :
          Unlinked(prepend_mnt_path_string(p)) =>
             /\ gc.pc = "unlink"
             /\ gc.file.path = p
             /\ mutex[p] = "gc"
             /\ \/ /\ (gc.now - gc.buf.st_mtime) > file_cache_timeout_in_seconds
                   /\ (gc.now - gc.buf.st_ctime) > file_cache_timeout_in_seconds
                \/ disk_threshold_reached
             /\ gc.fd
             /\ gc.flockres = "ok"]_vars

\* The worker has just unlinked a file on the strength of its age alone.
C2_Witness ==
    /\ gc.pc = "update_disk"
    /\ ~cache[prepend_mnt_path_string(gc.file.path)].exists
    /\ ~disk_threshold_reached

\* C3: no step unlinks a cached file on which a handle holds its shared
\* advisory lock, whatever the file's age and the threshold flag.
C3_NoUnlinkUnderSharedLock ==
    [][\A f \in CacheFiles : Unlinked(f) => SharedHolders(f) = {}]_vars

\* The worker, under disk pressure, found the file locked by an open handle and
\* left it in the cache.
C3_Witness ==
    /\ gc.pc = "pop"
    /\ gc.flockres = "EWOULDBLOCK"
    /\ disk_threshold_reached
    /\ SharedHolders(prepend_mnt_path_string(gc.file.path)) # {}
    /\ cache[prepend_mnt_path_string(gc.file.path)].exists

\* The worker ends a cycle in which flock failed with EWOULDBLOCK.
EndsBlockedCycle ==
    /\ gc.pc = "pop"
    /\ gc.flockres = "EWOULDBLOCK"
    /\ gc'.pc = "peek"

ProbeStep ==
    \/ gc.pc = "check" /\ gc'.pc = "peek"
    \/ gc.pc = "update_disk" /\ gc'.pc = "pop"

\* C5 as stated: a probe at or above the high watermark sets the flag; a true
\* flag stays true after every probe until one observes usage below the low
\* watermark; a false flag becomes true only on a probe at or above the high
\* watermark; nothing but a probe changes the flag.
C5_Original ==
    [][/\ ProbeStep =>
            /\ (gc'.probe.ok /\ gc'.probe.used_percent >= high_threshold)
                   => disk_threshold_reached'
            /\ (disk_threshold_reached /\ ~disk_threshold_reached')
                   => (gc'.probe.ok /\ gc'.probe.used_percent < low_threshold)
            /\ (~disk_threshold_reached /\ disk_threshold_reached')
                   => (gc'.probe.ok /\ gc'.probe.used_percent >= high_threshold)
       /\ ~ProbeStep => (disk_threshold_reached' = disk_threshold_reached)]_vars

\* C5 as amended: the same, except that a true flag stays true after every
\* probe that reads the usage at or above the low watermark, and is cleared by
\* a probe that reads it below the low watermark or cannot read it at all.
C5_Hysteresis ==
    [][/\ ProbeStep =>
            /\ (gc'.probe.ok /\ gc'.probe.used_percent >= high_threshold)
                   => disk_threshold_reached'
            /\ (disk_threshold_reached /\ gc'.probe.ok
                  /\ gc'.probe.used_percent >= low_threshold)
                   => disk_threshold_reached'
            /\ (disk_threshold_reached /\ ~disk_threshold_reached')
                   => (~gc'.probe.ok \/ gc'.probe.used_percent < low_threshold)
            /\ ~gc'.probe.ok => ~disk_threshold_reached'
            /\ (~disk_threshold_reached /\ disk_threshold_reached')
                   => (gc'.probe.ok /\ gc'.probe.used_percent >= high_threshold)
       /\ ~ProbeStep => (disk_threshold_reached' = disk_threshold_reached)]_vars

\* A probe between the two watermarks has left the flag true.
C5_Witness ==
    /\ gc.pc = "pop"
    /\ gc.probe.ok
    /\ gc.probe.used_percent >= low_threshold
    /\ gc.probe.used_percent < high_threshold
    /\ disk_threshold_reached

\* The steps of a cycle that follow a passed eligibility test, up to the
\* pop_front that ends it.
GcProcessing == {"lock", "stat", "open", "flock", "unlink", "update_disk", "pop"}

\* C18: the worker removes a candidate from the queue only in a cycle where the
\* head passed the eligibility test ((now - closed_time) > timeout, or the
\* threshold flag is true), and what it removes is that head; a cycle in which
\* the head is ineligible leaves the queue contents and order unchanged and
\* only re-probes the disk-threshold flag; a cycle that finds the queue empty
\* changes nothing.  The only other change to the queue is an add_file
\* appending at the back.
C18_DequeueOnlyWhenEligible ==
       [][/\ (gc.pc = "check" /\ gc' # gc) =>
               LET passed == \/ (now - gc.file.closed_time) > file_cache_timeout_in_seconds
                             \/ disk_threshold_reached
               IN  /\ passed => /\ gc'.pc = "lock"
                                /\ UNCHANGED <<m_cleanup, disk_threshold_reached, cache, mutex>>
                   /\ ~passed => /\ gc'.pc = "peek"
                                 /\ UNCHANGED <<m_cleanup, cache, mutex, handles>>
          /\ (gc'.pc \in GcProcessing /\ gc.pc \notin GcProcessing) =>
               (gc.pc = "check" /\ gc'.pc = "lock")
          /\ (gc.pc \in GcProcessing \ {"pop"}) => (gc'.pc \in GcProcessing)
          /\ (m_cleanup' # m_cleanup) =>
               \/ /\ gc.pc = "pop"
                  /\ gc.file = Head(m_cleanup)
                  /\ m_cleanup # <<>>
                  /\ m_cleanup' = Tail(m_cleanup)
                  /\ gc'.pc = "peek"
               \/ /\ Len(m_cleanup') = Len(m_cleanup) + 1
                  /\ SubSeq(m_cleanup', 1, Len(m_cleanup)) = m_cleanup
                  /\ gc' = gc
          /\ (gc.pc = "peek" /\ m_cleanup = <<>>) =>
               /\ gc' = gc
               /\ disk_threshold_reached' = disk_threshold_reached
               /\ \A p \in CacheFiles : cache[p].exists => cache'[p].exists
          /\ (gc'.pc \in GcProcessing) =>
               (m_cleanup' # <<>> /\ gc'.file = Head(m_cleanup'))]_vars

\* The worker is about to remove a head that passed the test on the threshold
\* flag alone, with a second candidate queued behind it.
C18_Witness ==
    /\ gc.pc = "pop"
    /\ ~((gc.now - gc.file.closed_time) > file_cache_timeout_in_seconds)
    /\ Len(m_cleanup) = 2
    /\ m_cleanup[2] # m_cleanup[1]

\* C20: in every reachable state the eviction queue is ordered by closure
\* time: of any two candidates in the queue, the one nearer the front has a
\* closed_time less than or equal to the other's, under any interleaving of
\* add_file calls from several threads with the eviction worker.
C20_QueueOrderedByClosedTime ==
    \A i, j \in 1..Len(m_cleanup) :
        i < j => m_cleanup[i].closed_time <= m_cleanup[j].closed_time

\* C22: a disk probe that fails (statvfs on the cache location fails) yields
\* 'threshold not reached': the flag is false after that probe whatever it was
\* before, and the probe itself removes nothing from the cache or the queue;
\* a file is unlinked only in the step that follows a successful exclusive
\* advisory lock on it, with no handle holding a shared lock.
C22_FailedProbeIsNotReached ==
    [][/\ (ProbeStep /\ ~gc'.probe.ok) =>
            /\ ~disk_threshold_reached'
            /\ cache' = cache
            /\ m_cleanup' = m_cleanup
       /\ \A f \in CacheFiles :
            Unlinked(f) =>
               /\ gc.pc = "unlink"
               /\ prepend_mnt_path_string(gc.file.path) = f
               /\ gc.fd
               /\ gc.flockres = "ok"
               /\ SharedHolders(f) = {}]_vars

\* The worker took a candidate that only the threshold flag made eligible,
\* unlinked its file, and the probe after the unlink failed: the flag is false.
C22_Witness ==
    /\ gc.pc = "pop"
    /\ gc.file.closed_time = now
    /\ ~cache[prepend_mnt_path_string(gc.file.path)].exists
    /\ ~gc.probe.ok
    /\ ~disk_threshold_reached

\* C24: the worker only ever examines the head of the queue, so cached files
\* are unlinked in enqueue order: a step that unlinks a file unlinks the file
\* of the head, which is the worker's candidate, while every candidate behind
\* it stays queued in the order of its arrival; and while the head is
\* ineligible (not timed out, threshold flag false) the worker goes back to
\* the top of its loop without having examined, dequeued or unlinked anything.
C24_UnlinkInEnqueueOrder ==
    [][/\ \A f \in CacheFiles :
            Unlinked(f) =>
               /\ m_cleanup # <<>>
               /\ prepend_mnt_path_string(m_cleanup[1].path) = f
               /\ gc.file = m_cleanup[1]
               /\ m_cleanup' = m_cleanup
               /\ \A g \in CacheFiles \ {f} : cache'[g] = cache[g]
       /\ \/ /\ Len(m_cleanup') >= Len(m_cleanup)
             /\ SubSeq(m_cleanup', 1, Len(m_cleanup)) = m_cleanup
          \/ /\ m_cleanup # <<>>
             /\ Len(m_cleanup') >= Len(m_cleanup) - 1
             /\ SubSeq(m_cleanup', 1, Len(m_cleanup) - 1) = Tail(m_cleanup)
       /\ (/\ gc.pc = "check"
           /\ gc' # gc
           /\ ~((now - gc.file.closed_time) > file_cache_timeout_in_seconds)
           /\ ~disk_threshold_reached) =>
              /\ gc'.pc = "peek"
              /\ gc'.file = NoFile
              /\ UNCHANGED <<m_cleanup, cache, mutex>>
       /\ (gc'.pc # "peek") =>
              (m_cleanup' # <<>> /\ gc'.file = m_cleanup'[1])]_vars

\* The worker has just unlinked the file of the head while a second candidate,
\* on another path, timed out as well and its file in the cache, waits behind.
C24_Witness ==
    /\ gc.pc = "update_disk"
    /\ Len(m_cleanup) = 2
    /\ gc.file = m_cleanup[1]
    /\ m_cleanup[2].path # m_cleanup[1].path
    /\ ~cache[prepend_mnt_path_string(m_cleanup[1].path)].exists
    /\ cache[prepend_mnt_path_string(m_cleanup[2].path)].exists
    /\ (now - m_cleanup[2].closed_time) > file_cache_timeout_in_seconds

\* C21: the queue lock is held only around push, peek and pop: the worker holds
\* it only at the peek and at the pop, never at the test, the path lock, stat,
\* open, flock, unlink or the disk probe, and a handle holds it only for its
\* push, so whoever holds it has nothing to wait for; no thread takes a path
\* lock while it holds the queue lock; a path lock is held by a thread working
\* on that path, which waits for nothing but, in the worker's case, the queue
\* lock at the pop.  No wait can therefore close into a cycle.
C21_QueueLockIsNarrow ==
    /\ [](/\ (m_deque_lock = "gc") => (gc.pc \in {"peek", "pop"})
          /\ (gc.pc \in {"check", "lock", "stat", "open", "flock", "unlink", "update_disk"}) =>
                (m_deque_lock # "gc")
          /\ m_deque_lock \in {"free", "gc"} \cup Handles
          /\ \A h \in Handles : (m_deque_lock = h) => (handles[h].pc = "closing")
          /\ \A p \in Paths :
                /\ mutex[p] \in {"free", "gc"} \cup Getattrs
                /\ (mutex[p] = "gc") =>
                      /\ gc.file.path = p
                      /\ gc.pc \in {"stat", "open", "flock", "unlink", "update_disk", "pop"}
                /\ \A g \in Getattrs :
                      (mutex[p] = g) =>
                         /\ getattr[g].path = p
                         /\ getattr[g].pc \in {"access", "lstat", "remote"})
    /\ [][/\ \A p \in Paths :
               /\ (mutex[p] # "gc" /\ mutex'[p] = "gc") => (m_deque_lock # "gc")
               /\ \A g \in Getattrs :
                     (mutex[p] # g /\ mutex'[p] = g) => (m_deque_lock # g)
          /\ (m_deque_lock' # m_deque_lock) =>
               UNCHANGED <<cache, disk_threshold_reached>>]_vars

\* The worker is at the unlink, holding the path lock of its candidate and the
\* exclusive advisory lock, while a handle holds the queue lock for its push
\* and a getattr thread waits for the path lock.
C21_Witness ==
    /\ gc.pc = "unlink"
    /\ mutex[gc.file.path] = "gc"
    /\ m_deque_lock = "h1"
    /\ getattr["g1"].pc = "lock"
    /\ getattr["g1"].path = gc.file.path

\* The candidate add_file builds for the handle h.
CandidateOf(h) == [path |-> handles[h].path, closed_time |-> handles[h].closed_time]

\* C23: the candidate the worker removes at the end of a cycle is the one it
\* peeked and processed in that cycle, and no candidate appended by a
\* concurrent add_file is lost or removed unprocessed: the queue changes only
\* by the worker's pop, which removes the head and finds there the candidate
\* in the worker's hands, or by a push that adds the caller's candidate at
\* the back and leaves the others as they were; every add_file that ends has
\* left its candidate in the queue; and from the peek to the pop the head of
\* the queue is the worker's candidate, whatever was pushed meanwhile.
C23_PopRemovesThePeekedCandidate ==
    [][/\ (m_cleanup' # m_cleanup) =>
            \/ /\ gc.pc = "pop"
               /\ m_deque_lock = "gc"
               /\ m_cleanup # <<>>
               /\ m_cleanup[1] = gc.file
               /\ m_cleanup' = Tail(m_cleanup)
               /\ handles' = handles
            \/ /\ \E h \in Handles :
                     /\ m_deque_lock = h
                     /\ handles[h].pc = "closing"
                     /\ m_cleanup' = m_cleanup \o <<CandidateOf(h)>>
               /\ gc' = gc
       /\ \A h \in Handles :
            (handles[h].pc = "closing" /\ handles'[h].pc # "closing") =>
               /\ Len(m_cleanup') = Len(m_cleanup) + 1
               /\ m_cleanup'[Len(m_cleanup')] = CandidateOf(h)
       /\ (gc'.pc # "peek") =>
            /\ m_cleanup' # <<>>
            /\ gc'.file = m_cleanup'[1]
       /\ (gc.pc # "peek" /\ gc'.pc # "peek") => (gc'.file = gc.file)]_vars

\* The worker holds the queue lock for the pop; behind its candidate stands
\* another one, pushed since.
C23_Witness ==
    /\ gc.pc = "pop"
    /\ m_deque_lock = "gc"
    /\ Len(m_cleanup) = 2
    /\ m_cleanup[1] = gc.file
    /\ m_cleanup[2] # gc.file

C26_TouchedFileIsDroppedUnopened ==
    [][/\ (/\ gc.pc = "stat"
           /\ gc'.pc # "stat"
           /\ ~((gc.now - gc'.buf.st_mtime) > file_cache_timeout_in_seconds
                /\ (gc.now - gc'.buf.st_ctime) > file_cache_timeout_in_seconds)
           /\ ~disk_threshold_reached) =>
            /\ gc'.pc = "pop"
            /\ ~gc'.fd
            /\ gc'.flockres = "none"
            /\ UNCHANGED <<cache, m_cleanup, handles>>
       /\ (gc.pc = "pop" /\ gc' # gc) =>
            /\ m_cleanup # <<>>
            /\ m_cleanup' = Tail(m_cleanup)
            /\ cache' = cache
            /\ gc'.pc = "peek"
            /\ gc'.file = NoFile
       /\ (gc'.file # gc.file) =>
            \/ gc'.file = NoFile
            \/ (gc.pc = "peek" /\ m_cleanup # <<>> /\ gc'.file = Head(m_cleanup))]_vars

\* The head was eligible by its closed time, its file is in the cache and was
\* touched at the time of the test, the flag is false: the worker stands at
\* the pop with no descriptor opened.
C26_Witness ==
    /\ gc.pc = "pop"
    /\ (gc.now - gc.file.closed_time) > file_cache_timeout_in_seconds
    /\ ~((gc.now - gc.buf.st_mtime) > file_cache_timeout_in_seconds)
    /\ ~disk_threshold_reached
    /\ ~gc.fd
    /\ gc.flockres = "none"
    /\ cache[prepend_mnt_path_string(gc.file.path)].exists
    /\ cache[prepend_mnt_path_string(gc.file.path)].st_mtime = gc.buf.st_mtime
    /\ Head(m_cleanup) = gc.file

----
\* Properties of list_all_blobs_hierarchical.

\* C6: when the listing completes without error, the pages read this way give
\* the remote's names, each once and in the remote's order, however the remote
\* paged them and whatever calls failed on the way; and the first page returned
\* is never flagged skip_first.
C6_PagesGiveEachNameOnce ==
    /\ (list.pc = "done" /\ list.errno = 0) => Flatten(list.results) = remote.listing
    /\ (list.results # <<>>) => ~list.results[1].skip_first

\* A listing of four names completed after an answer that brought nothing new
\* and a page that began with a repeated name.
C6_Witness ==
    /\ list.pc = "done"
    /\ list.errno = 0
    /\ Len(remote.listing) = 4
    /\ remote.stalls > 0
    /\ \E i \in 1..Len(list.results) : list.results[i].skip_first

\* C7: a failed call leaves the continuation token as it was and the next call
\* is made with the token of the failed one; a successful call resets the
\* failure counter; the loop ends without error exactly on a successful call
\* that returns an empty token, and ends with the remote error set exactly on
\* the 20th consecutive failure; no 21st consecutive failing call is made; and
\* the loop ends, the remote giving only so many answers that bring nothing.
C7_BoundedRetry ==
    /\ [][(list.pc = "call" /\ list_vars' # list_vars) =>
            /\ (list'.errno # 0) => (list'.continuation = list.continuation)
            /\ (list.errno # 0) => (remote'.last_token = remote.last_token)
            /\ (list'.errno = 0) => (list'.failcount = 0)
            /\ (list'.pc = "done" /\ list'.errno = 0)
                  <=> (list'.errno = 0 /\ list'.continuation = EmptyToken)
            /\ (list'.pc = "done" /\ list'.errno # 0)
                  <=> (remote'.consec_fails = maxFailCount)]_vars
    /\ [](remote.consec_fails <= maxFailCount)
    /\ <>(list.pc = "done")

\* The listing was given up on the 20th failure in a row, with pages already
\* fetched and more to come.
C7_Witness ==
    /\ list.pc = "done"
    /\ list.errno # 0
    /\ list.failcount = maxFailCount
    /\ list.results # <<>>
    /\ list.continuation # EmptyToken

----
\* Properties of is_directory_empty.

\* The container holds name under the directory.
Holds(name) == \E i \in 1..Len(remote.listing) : remote.listing[i] = name

\* The object at the directory's own key is a zero-size object flagged as a folder.
HasFolderObject ==
    remote.object.valid /\ is_directory_blob(remote.object.size, remote.object.metadata)

\* C8: whenever is_directory_empty returns a directory state, the state is the
\* one the container's contents give: nothing under the directory and no
\* folder object gives D_NOTEXIST; the legacy marker alone gives D_EMPTY; the
\* legacy marker with any other entry gives D_NOTEMPTY; a folder object with
\* nothing under the directory gives D_EMPTY.
C8_StateFromContents ==
    (dir.pc = "done" /\ dir.ret # "-1") =>
        /\ (remote.listing = <<>> /\ ~HasFolderObject) => dir.ret = "D_NOTEXIST"
        /\ (remote.listing = <<Name_marker>>) => dir.ret = "D_EMPTY"
        /\ (Holds(Name_marker) /\ Len(remote.listing) > 1) => dir.ret = "D_NOTEMPTY"
        /\ (remote.listing = <<>> /\ HasFolderObject) => dir.ret = "D_EMPTY"

----
\* Properties of azs_rename and azs_rename_directory.

\* name is an entry of the cache directory of src.
InLocal(name) == ren.dir_stream /\ \E e \in ren.entries : e.d_name = name

\* name is the trailing name of an entry of the remote listing under src.
InRemote(name) ==
    \E k \in 1..Len(remote.listing) :
       LET listed == remote.listing[k]
       IN  name = (IF listed[Len(listed)] = "/"
                   THEN SubSeq(listed, Len(srcPathStr), Len(listed) - 1)
                   ELSE SubSeq(listed, Len(srcPathStr), Len(listed)))

\* azs_rename_directory has run to its end.
RenCompleted == ren.pc = "done" /\ ren.rmdir

\* This step asks for a rename in the remote phase.
RemoteRenameStep == ren'.remote_renames # ren.remote_renames

\* This step asks for a rename in the local phase.
LocalRenameStep == ren'.local_renames # ren.local_renames

C10_FailedRenameReturnsError ==
    (ren.pc = "done") =>
        /\ (ren.dir_ret < 0) => (ren.ret = ren.dir_ret)
        /\ ren.nested_failed => (ren.ret < 0)

\* C19: when the remote listing in azs_rename_directory fails after its
\* retries, the call returns the negated translated error without performing
\* any remote-phase rename and without removing the source directory, and
\* every entry already renamed (the directory marker and the local-phase
\* entries) stays renamed: nothing is rolled back, then or later in the call.
C19_ListingFailureAbortsWithoutRollback ==
    /\ [][(ren.pc = "list" /\ list.pc = "done" /\ list.errno # 0 /\ ren' # ren) =>
            /\ ren'.pc = "return"
            /\ ren'.dir_ret = 0 - map_errno(list.errno)
            /\ ren'.dir_ret < 0
            /\ UNCHANGED <<ren.marker_renamed, ren.local_renames, ren.remote_renames, ren.rmdir>>
            /\ \A n \in Names : ren'.remote_renames[n] = 0
            /\ ~ren'.rmdir]_vars
    /\ [][(ren.pc \in {"return", "done"}) =>
            /\ UNCHANGED <<ren.marker_renamed, ren.local_renames, ren.remote_renames, ren.rmdir>>
            /\ ren'.dir_ret = ren.dir_ret
            /\ ren'.pc \in {"return", "done"}]_vars
    /\ [][\A n \in Names :
            /\ ren'.local_renames[n] >= ren.local_renames[n]
            /\ ren'.remote_renames[n] >= ren.remote_renames[n]
            /\ ren.marker_renamed => ren'.marker_renamed]_vars
    /\ []((ren.pc \in {"return", "done"} /\ ren.dir_ret < 0) =>
            /\ ~ren.rmdir
            /\ \A n \in Names : ren.remote_renames[n] = 0)

\* A rename whose listing failed has ended: the directory object and the two
\* cached entries were renamed and stay so, nothing was renamed in the remote
\* phase and the source directory was not removed.
C19_Witness ==
    /\ ren.pc = "done"
    /\ ren.dir_ret = 0 - EIO
    /\ ren.marker_renamed
    /\ ren.local_renames[<<"f">>] = 1
    /\ ren.local_renames[<<"s">>] = 1
    /\ \A n \in Names : ren.remote_renames[n] = 0
    /\ ~ren.rmdir

----
\* Properties of azs_getattr.

\* C11: a call on the root returns in one step, with 0 and a directory record
\* of link count 2 and size 4096; the step takes no path mutex, makes no
\* access probe, no property call and no listing call, and leaves the remote
\* and the listing untouched, whatever the cache and the container hold.
C11_RootIsDirectory ==
    /\ [][(ga.pc = "start" /\ ga.path = GaRootPath /\ ga' # ga) =>
            /\ ga'.pc = "done"
            /\ ga'.ret = 0
            /\ ga'.stbuf.st_mode = "S_IFDIR"
            /\ ga'.stbuf.st_nlink = 2
            /\ ga'.stbuf.st_size = 4096
            /\ ga'.fmutex = "none"
            /\ ~ga'.probed
            /\ ga'.property_calls = 0
            /\ list' = list
            /\ remote' = remote]_vars
    /\ [](ga.path = GaRootPath =>
            /\ list.pc = "idle"
            /\ ga.fmutex = "none"
            /\ ~ga.probed
            /\ ga.property_calls = 0
            /\ ga.pc \in {"start", "done"})

\* A call on the root has returned, with an object in the local cache and a
\* container that holds a folder object and lists names.
C11_Witness ==
    /\ ga.pc = "done"
    /\ ga.path = GaRootPath
    /\ ga.ret = 0
    /\ ga.stbuf.st_nlink = 2
    /\ ga.local = "present"
    /\ remote.object = FolderObject
    /\ Len(remote.listing) > 1

\* C12: the access probe is made holding the path mutex; when it finds the
\* object in the local cache, no listing call and no property call is made,
\* and the call returns 0 with the attributes lstat gave, or the negated errno
\* of lstat with stbuf untouched, whatever the container holds.
C12_LocalCacheWins ==
    /\ [][(ga'.probed /\ ~ga.probed) => ga.fmutex = "held"]_vars
    /\ []((ga.path # GaRootPath /\ ga.local = "present") =>
            /\ list.pc = "idle"
            /\ ga.property_calls = 0
            /\ (ga.pc = "done") =>
                  \/ ga.ret = 0 /\ ga.stbuf = LocalStbuf
                  \/ ga.ret < 0 /\ (0 - ga.ret) \in {EACCES, EIO} /\ ga.stbuf = NoStbuf)

\* A call returned the local attributes of an object for which the container
\* holds a flagged object of another size and lists names.
C12_Witness ==
    /\ ga.pc = "done"
    /\ ga.path = GaPath
    /\ ga.local = "present"
    /\ ga.ret = 0
    /\ ga.stbuf.st_size = 5
    /\ remote.object = FlaggedFileObject
    /\ Len(remote.listing) > 1

\* The container holds at least one entry under path + "/": the listing of
\* the path's prefix has the prefix entry "d/".
HasChildren == \E i \in 1..Len(remote.listing) : remote.listing[i] = <<"d", "/">>

\* The call went to the remote and returned a directory record.
ResolvedDirectory ==
    /\ ga.pc = "done"
    /\ ga.path = GaPath
    /\ ga.local = "absent"
    /\ ga.ret = 0
    /\ ga.stbuf.st_mode = "S_IFDIR"

\* C13: when a call that went to the remote returns a directory record, the
\* link count is 3 if the container holds an entry under path + "/" and 2 if
\* it holds none, whatever other names share the path as a prefix.
C13_LinkCountSignalsEmptiness ==
    ResolvedDirectory => (ga.stbuf.st_nlink = (IF HasChildren THEN 3 ELSE 2))

\* The listing of the path's prefix has an entry named exactly path or
\* path + "/".
HasExactMatch ==
    \E i \in 1..Len(remote.listing) :
       remote.listing[i] = <<"d">> \/ remote.listing[i] = <<"d", "/">>

\* The first exact match is a directory signal: the prefix entry, or an object
\* of size zero that carries the folder flag.
MatchIsDirectorySignal ==
    IF remote.object.valid
    THEN /\ remote.object.size = 0
         /\ \E i \in 1..Len(remote.object.metadata) :
               remote.object.metadata[i] = <<"hdi_isfolder", "true">>
    ELSE TRUE

\* C14: when a call that went to the remote returns 0 and the listing has an
\* exact match, the record is a directory record if and only if the match is a
\* directory signal; otherwise it is a regular-file record with link count 1
\* and the size and modification time of the object's property record.
C14_DirectoryIffSignal ==
    (ga.pc = "done" /\ ga.path = GaPath /\ ga.local = "absent" /\ ga.ret = 0
     /\ HasExactMatch) =>
        IF MatchIsDirectorySignal
        THEN ga.stbuf.st_mode = "S_IFDIR"
        ELSE /\ ga.stbuf.st_mode = "S_IFREG"
             /\ ga.stbuf.st_nlink = 1
             /\ ga.stbuf.st_size = remote.object.size
             /\ ga.stbuf.st_mtime = remote.object.last_modified

\* The listing succeeded and none of the entries read from its pages is named
\* exactly path or path + "/".
ListedWithoutMatch ==
    /\ list.pc = "done"
    /\ list.errno = 0
    /\ \A i \in 1..Len(Flatten(list.results)) :
          /\ Flatten(list.results)[i] # <<"d">>
          /\ Flatten(list.results)[i] # <<"d", "/">>

\* C15: when a call that went to the remote has returned after a listing that
\* succeeded and had no entry named exactly path or path + "/" (a listing of
\* no page included), the result is -ENOENT, no property call was made and
\* stbuf is untouched.
C15_NoMatchIsNotFound ==
    (ga.pc = "done" /\ ga.path = GaPath /\ ga.local = "absent" /\ ListedWithoutMatch) =>
        /\ ga.ret = 0 - ENOENT
        /\ ga.property_calls = 0
        /\ ga.stbuf = NoStbuf

\* Not-found was returned after a listing of three other names that share the
\* prefix, read in pages one of which began with a repeated name.
C15_Witness ==
    /\ ga.pc = "done"
    /\ ga.path = GaPath
    /\ ga.local = "absent"
    /\ ListedWithoutMatch
    /\ ga.ret = 0 - ENOENT
    /\ Len(remote.listing) = 3
    /\ \E k \in 1..Len(list.results) : list.results[k].skip_first

====
